---- MODULE Spec2Model ----
(***************************************************************************)
(* AMR surveillance dashboard (plot_graph.py).                             *)
(*                                                                         *)
(* The script is re-executed from top to bottom on every widget            *)
(* interaction.  The state is the loaded dataset, the raw widget           *)
(* selections and what the last execution of the script computed.          *)
(*                                                                         *)
(* Numbers.  Labels (sites, formatted dates, targets) are positive         *)
(* integers, ordered as sorted() orders the strings.  Pivot cells are      *)
(* held exactly, as multiples of 1/Unit.  Standardized values are held     *)
(* exactly as num/sqrt(sq); distances are held exactly as squared          *)
(* distances num/den in lowest terms.  Floating-point rounding is not      *)
(* modelled.                                                               *)
(***************************************************************************)
EXTENDS Integers, Sequences, FiniteSets, TLC

VARIABLES
    df,                \* the dataset returned by load_data()
    ms_vrdls,          \* what the "Select VRDL(s)" multiselect returns
    ms_dates,          \* what the "Select Dates" multiselect returns
    ms_targets,        \* what the "Select Target(s)" multiselect returns
    selected_vrdls,    \* resolved selections of the last run
    selected_dates,
    selected_targets,
    plot_type,
    value_type,
    filtered_df,
    pivot,             \* [index, columns, values] of the last run
    scaled_data,       \* scaler.fit_transform(pivot) of the last run
    scaled_cols,       \* scaler.fit_transform(pivot.T) of the last run
    row_leaves,
    col_leaves,
    clustered_data,    \* [index, columns, values] after reordering
    calls,             \* the library calls of the last run, in order
    error              \* the exception that ended the last run, or NoError

vars == << df, ms_vrdls, ms_dates, ms_targets, selected_vrdls,
           selected_dates, selected_targets, plot_type, value_type,
           filtered_df, pivot, scaled_data, scaled_cols, row_leaves,
           col_leaves, clustered_data, calls, error >>

-----------------------------------------------------------------------------
(* Bounds of the model *)

MaxRecords == 2        \* rows of compiled_data.csv (dashboard)
MaxBag == 3            \* filtered records handed to the matrix builder
MaxRows == 4           \* rows of a matrix handed to the clustering
MaxCols == 2           \* columns of a matrix handed to the clustering

(* Label universes *)
VRDLs == {1, 2}
Stamps == {1, 2, 3}    \* timestamps; 1 and 2 fall on the same day
Targets == {1, 2}

(* Program constants *)
SelectAll == -1        \* the "Select All" option
NaN == 0               \* NaN / NaT, a missing value
CqFill == 40           \* fillna(40)

-----------------------------------------------------------------------------
(* Arithmetic helpers *)

Abs(x) == IF x < 0 THEN -x ELSE x

RECURSIVE Gcd(_, _)
Gcd(a, b) == IF b = 0 THEN Abs(a) ELSE Gcd(b, a % b)

Lcm(a, b) == (a \div Gcd(a, b)) * b

RECURSIVE LcmUpTo(_)
LcmUpTo(n) == IF n <= 1 THEN 1 ELSE Lcm(LcmUpTo(n - 1), n)

Min(S) == CHOOSE x \in S : \A y \in S : x <= y

RECURSIVE SumSeq(_)
SumSeq(s) == IF s = << >> THEN 0 ELSE Head(s) + SumSeq(Tail(s))

Range(s) == { s[i] : i \in DOMAIN s }

(* sorted(set): the ascending sequence of a finite set of integers *)
RECURSIVE Sorted(_)
Sorted(S) == IF S = {} THEN << >>
             ELSE LET m == Min(S) IN << m >> \o Sorted(S \ {m})

(* Position of a label in a sequence of distinct labels (0 if absent) *)
IndexOf(s, x) == IF \E i \in DOMAIN s : s[i] = x
                 THEN CHOOSE i \in DOMAIN s : s[i] = x
                 ELSE 0

-----------------------------------------------------------------------------
(* load_data *)

Log10(x) == CASE x = 1 -> 0 [] x = 10 -> 1 [] x = 100 -> 2 [] x = 1000 -> 3

(* The measurements of a row: (Avg Cq, Copy Number) *)
Measures == { << NaN, 100 >>, << 20, 0 >> }

(* One row of compiled_data.csv after the coercions of read_csv,           *)
(* to_datetime and to_numeric; a date that does not parse is NaT           *)
CsvRow == { [ VRDL_Name |-> v, Date_of_collection |-> t, Target |-> g,
              Avg_Cq |-> m[1], Copy_Number |-> m[2] ] :
            v \in VRDLs, t \in Stamps \cup {NaN}, g \in Targets, m \in Measures }

load_row(r) ==
    [ VRDL_Name |-> r.VRDL_Name,
      Date_of_collection |-> r.Date_of_collection,
      Target |-> r.Target,
      Avg_Cq |-> IF r.Avg_Cq = NaN THEN CqFill ELSE r.Avg_Cq,
      Copy_Number |-> r.Copy_Number,
      log_Copy_Number |-> IF r.Copy_Number > 0 THEN Log10(r.Copy_Number) ELSE 0 ]

load_data(csv) == [ i \in DOMAIN csv |-> load_row(csv[i]) ]

(* .dt.strftime("%d-%m-%Y"): the day of a timestamp, NaN for NaT *)
Strftime(t) == IF t = NaN THEN NaN ELSE (t + 1) \div 2

Value(r, kind) == CASE kind = "Avg Cq" -> r.Avg_Cq
                    [] kind = "Copy Number" -> r.Copy_Number
                    [] kind = "log Copy Number" -> r.log_Copy_Number

-----------------------------------------------------------------------------
(* Sidebar *)

Column(d, f) == { d[i][f] : i \in DOMAIN d }

vrdl_values(d) == Column(d, "VRDL_Name") \ {NaN}
date_values(d) == { Strftime(t) : t \in Column(d, "Date_of_collection") } \ {NaN}
target_values(d) == Column(d, "Target") \ {NaN}

(* Mutant of Resolve: "Select All" is not removed from a mixed selection *)
ResolveKeepsSelectAll(selected, values) ==
    IF SelectAll \in selected /\ Cardinality(selected) = 1 THEN values
    ELSE selected

(* The "Select All" logic, the same for the three selectors *)
Resolve(selected, values) ==
    IF SelectAll \in selected /\ Cardinality(selected) > 1
    THEN selected \ {SelectAll}
    ELSE IF SelectAll \in selected THEN values
    ELSE selected

all_selected(sv, sd, st, d) ==
    /\ sv = vrdl_values(d)
    /\ sd = date_values(d)
    /\ st = target_values(d)

plot_options(all) == IF all THEN << "Heatmap" >> ELSE << "Bar Plot" >>

value_options(all) == IF all THEN << "Avg Cq", "log Copy Number" >>
                      ELSE << "Avg Cq", "Copy Number", "log Copy Number" >>

(* Mutant of Selectbox: the stored choice survives a change of options *)
SelectboxKeepsStored(options, stored) ==
    IF stored = "" THEN options[1] ELSE stored

(* st.selectbox(options, key=...): the stored choice when it is still an   *)
(* option, the first option otherwise                                      *)
Selectbox(options, stored) ==
    IF stored \in Range(options) THEN stored ELSE options[1]

(* Positions of the rows of d that pass the three isin() masks *)
FilterMask(d, sv, sd, st) ==
    { i \in DOMAIN d : /\ d[i].VRDL_Name \in sv
                       /\ Strftime(d[i].Date_of_collection) \in sd
                       /\ d[i].Target \in st }

RECURSIVE Take(_, _)
Take(d, idx) == IF idx = << >> THEN << >>
                ELSE << d[Head(idx)] >> \o Take(d, Tail(idx))

Filter(d, sv, sd, st) == Take(d, Sorted(FilterMask(d, sv, sd, st)))

-----------------------------------------------------------------------------
(* Exact non-negative rationals [num, den], den > 0, in lowest terms *)

Frac(n, d) == LET g == Gcd(n, d) IN [ num |-> n \div g, den |-> d \div g ]

FracAdd(a, b) ==
    LET l == Lcm(a.den, b.den)
    IN Frac(a.num * (l \div a.den) + b.num * (l \div b.den), l)

FracLess(a, b) ==
    LET g == Gcd(a.den, b.den)
    IN a.num * (b.den \div g) < b.num * (a.den \div g)

-----------------------------------------------------------------------------
(* Matrix builder: filtered_df.pivot_table(index="Target",                 *)
(* columns="VRDL+Date", values=value_type, aggfunc="mean", fill_value=0)   *)

(* Cells are held as multiples of 1/Unit: the mean of at most              *)
(* Max(MaxRecords, MaxBag) integers is such a multiple                     *)
Unit == LcmUpTo(IF MaxRecords > MaxBag THEN MaxRecords ELSE MaxBag)

(* Mutant of VRDLDate: the timestamp is not formatted to its day *)
VRDLDateUnformatted(r) ==
    IF r.VRDL_Name = NaN \/ r.Date_of_collection = NaN
    THEN << NaN, NaN >>
    ELSE << r.VRDL_Name, r.Date_of_collection >>

(* filtered_df["VRDL+Date"]: site + " (" + formatted date + ")", NaN when  *)
(* either part is NaN                                                      *)
VRDLDate(r) ==
    IF r.VRDL_Name = NaN \/ Strftime(r.Date_of_collection) = NaN
    THEN << NaN, NaN >>
    ELSE << r.VRDL_Name, Strftime(r.Date_of_collection) >>

(* The composite strings sort by site, then by formatted date *)
PairKey(c) == c[1] * 1000 + c[2]

RECURSIVE SortedPairs(_)
SortedPairs(S) ==
    IF S = {} THEN << >>
    ELSE LET m == CHOOSE x \in S : \A y \in S : PairKey(x) <= PairKey(y)
         IN << m >> \o SortedPairs(S \ {m})

(* Positions of the records of group (t, c); groupby drops NaN keys *)
Group(recs, t, c) ==
    { i \in DOMAIN recs : recs[i].Target = t /\ VRDLDate(recs[i]) = c }

RECURSIVE SumOver(_, _, _)
SumOver(recs, kind, idx) ==
    IF idx = {} THEN 0
    ELSE LET i == Min(idx)
         IN Value(recs[i], kind) + SumOver(recs, kind, idx \ {i})

(* Mutant of Cell: aggfunc="sum" *)
CellSum(recs, kind, t, c) ==
    SumOver(recs, kind, { i \in DOMAIN recs :
                            recs[i].Target = t /\ VRDLDate(recs[i]) = c }) * Unit

(* aggfunc="mean", then fill_value=0 for the pairs no record has *)
Cell(recs, kind, t, c) ==
    LET g == Group(recs, t, c)
    IN IF g = {} THEN 0
       ELSE (SumOver(recs, kind, g) * Unit) \div Cardinality(g)

pivot_table(recs, kind) ==
    LET keyed == { i \in DOMAIN recs : /\ recs[i].Target # NaN
                                       /\ VRDLDate(recs[i]) # << NaN, NaN >> }
        idx == Sorted({ recs[i].Target : i \in keyed })
        cols == SortedPairs({ VRDLDate(recs[i]) : i \in keyed })
    IN [ index |-> idx,
         columns |-> cols,
         values |-> [ i \in DOMAIN idx |->
                        [ j \in DOMAIN cols |->
                            Cell(recs, kind, idx[i], cols[j]) ] ] ]

EmptyFrame == [ index |-> << >>, columns |-> << >>, values |-> << >> ]

(* pivot.T as an array: one row per column of the matrix *)
Transpose(X, ncols) ==
    [ j \in 1..ncols |-> [ i \in DOMAIN X |-> X[i][j] ] ]

-----------------------------------------------------------------------------
(* StandardScaler().fit_transform(X): X has one row per sample.  Entry     *)
(* (i, j) becomes (X[i][j] - mean_j) / scale_j, with scale_j the           *)
(* population standard deviation of column j, replaced by 1 where it is    *)
(* zero.  With n samples, S_j the column sum and W_j = n*sum(x^2) - S_j^2  *)
(* (n^2 times the variance), the entry is num/sqrt(sq) with                *)
(* num = n*X[i][j] - S_j and sq = W_j, or sq = n^2 when W_j = 0.           *)

ColSum(X, j) == SumSeq([ i \in DOMAIN X |-> X[i][j] ])
ColSumSq(X, j) == SumSeq([ i \in DOMAIN X |-> X[i][j] * X[i][j] ])

NVar(X, j) == Len(X) * ColSumSq(X, j) - ColSum(X, j) * ColSum(X, j)

(* Mutant of ScaleSq: a zero scale is kept *)
ScaleSqKeepsZero(X, j) == NVar(X, j)

(* _handle_zeros_in_scale: a zero scale is replaced by 1 *)
ScaleSq(X, j) == IF NVar(X, j) = 0 THEN Len(X) * Len(X) ELSE NVar(X, j)

fit_transform(X) ==
    [ i \in DOMAIN X |->
        [ j \in DOMAIN X[i] |->
            [ num |-> Len(X) * X[i][j] - ColSum(X, j),
              sq |-> ScaleSq(X, j) ] ] ]

(* An entry is finite unless it divides by a zero scale *)
IsFinite(z) == z.sq > 0

-----------------------------------------------------------------------------
(* scipy.cluster.hierarchy.linkage(X, method='ward'): pdist, then the      *)
(* nearest-neighbour chain algorithm with the Ward update, a stable sort   *)
(* of the merges by distance and the relabelling of the clusters.          *)
(* Clusters and observations are numbered from 0, as in the library.       *)
(* Distances are held squared: the order of the squares is the order of    *)
(* the distances.                                                          *)

Infinity == [ num |-> 1, den |-> 0 ]

Pair(i, j) == IF i < j THEN << i, j >> ELSE << j, i >>

RECURSIVE SqDistFrom(_, _, _)
SqDistFrom(a, b, j) ==
    IF j > Len(a) THEN [ num |-> 0, den |-> 1 ]
    ELSE FracAdd(Frac((a[j].num - b[j].num) * (a[j].num - b[j].num), a[j].sq),
                 SqDistFrom(a, b, j + 1))

(* pdist(X)^2, condensed: one entry per pair i < j *)
pdist(X) ==
    [ p \in { << i, j >> \in (0..Len(X) - 1) \X (0..Len(X) - 1) : i < j } |->
        SqDistFrom(X[p[1] + 1], X[p[2] + 1], 1) ]

(* _ward, on squares, over the common denominator l of the three *)
WardOver(d_xi, d_yi, d_xy, size_x, size_y, size_i, l) ==
    Frac((size_i + size_x) * d_xi.num * (l \div d_xi.den)
         + (size_i + size_y) * d_yi.num * (l \div d_yi.den)
         - size_i * d_xy.num * (l \div d_xy.den),
         l * (size_x + size_y + size_i))

ward(d_xi, d_yi, d_xy, size_x, size_y, size_i) ==
    WardOver(d_xi, d_yi, d_xy, size_x, size_y, size_i,
             Lcm(Lcm(d_xi.den, d_yi.den), d_xy.den))

(* The scan "for i in range(n)" for the nearest neighbour of x, starting   *)
(* from the candidate y at distance current_min                            *)
RECURSIVE ScanNeighbours(_, _, _, _, _, _, _)
ScanNeighbours(D, size, n, x, i, y, current_min) ==
    IF i = n THEN [ y |-> y, min |-> current_min ]
    ELSE IF size[i] = 0 \/ x = i
         THEN ScanNeighbours(D, size, n, x, i + 1, y, current_min)
    ELSE IF FracLess(D[Pair(x, i)], current_min)
         THEN ScanNeighbours(D, size, n, x, i + 1, i, D[Pair(x, i)])
    ELSE ScanNeighbours(D, size, n, x, i + 1, y, current_min)

(* The nearest neighbour of the last element of the chain; the previous    *)
(* element of the chain is preferred on a tie                              *)
Nearest(D, size, n, chain) ==
    IF Len(chain) > 1
    THEN ScanNeighbours(D, size, n, chain[Len(chain)], 0, chain[Len(chain) - 1],
                        D[Pair(chain[Len(chain)], chain[Len(chain) - 1])])
    ELSE ScanNeighbours(D, size, n, chain[Len(chain)], 0, 0, Infinity)

(* "while True": extend the chain until its last two are mutual nearest    *)
(* neighbours                                                              *)
RECURSIVE GrowChain(_, _, _, _)
ChainStep(D, size, n, chain, s) ==
    IF Len(chain) > 1 /\ s.y = chain[Len(chain) - 1]
    THEN [ chain |-> chain, x |-> chain[Len(chain)], y |-> s.y, min |-> s.min ]
    ELSE GrowChain(D, size, n, Append(chain, s.y))

GrowChain(D, size, n, chain) ==
    ChainStep(D, size, n, chain, Nearest(D, size, n, chain))

(* The other end of the pair p of y *)
Other(p, y) == IF p[1] = y THEN p[2] ELSE p[1]

(* The distances after x and y are merged into y: "for i in range(n):      *)
(* if size[i] == 0 or i == y: continue; D[i, y] = new_dist(...)"           *)
MergedDist(D, size, size2, p, x, y, current_min) ==
    IF y \in { p[1], p[2] } /\ size2[Other(p, y)] > 0
    THEN ward(D[Pair(Other(p, y), x)], D[p], current_min,
              size[x], size[y], size[Other(p, y)])
    ELSE D[p]

RECURSIVE nn_chain(_, _, _, _, _, _)
Merge(D, size, n, chain, Z, k, x, y, current_min) ==
    nn_chain([ p \in DOMAIN D |->
                 MergedDist(D, size,
                            [ size EXCEPT ![x] = 0, ![y] = size[x] + size[y] ],
                            p, x, y, current_min) ],
             [ size EXCEPT ![x] = 0, ![y] = size[x] + size[y] ],
             n, SubSeq(chain, 1, Len(chain) - 2),
             Append(Z, [ a |-> x, b |-> y, dist |-> current_min ]), k + 1)

(* "if x > y: x, y = y, x" *)
MergeFound(D, size, n, Z, k, g) ==
    IF g.x > g.y
    THEN Merge(D, size, n, g.chain, Z, k, g.y, g.x, g.min)
    ELSE Merge(D, size, n, g.chain, Z, k, g.x, g.y, g.min)

nn_chain(D, size, n, chain, Z, k) ==
    IF k = n - 1 THEN Z
    ELSE MergeFound(D, size, n, Z, k,
                    GrowChain(D, size, n,
                              IF chain = << >>
                              THEN << Min({ i \in 0..n - 1 : size[i] > 0 }) >>
                              ELSE chain))

(* Mutant of SortByDist: descending *)
RECURSIVE SortByDistDescending(_)
SortByDistDescending(Z) ==
    IF Len(Z) <= 1 THEN Z
    ELSE LET init == SortByDistDescending(SubSeq(Z, 1, Len(Z) - 1))
             z == Z[Len(Z)]
             before == { i \in DOMAIN init : ~FracLess(init[i].dist, z.dist) }
             cut == Cardinality(before)
         IN SubSeq(init, 1, cut) \o << z >> \o SubSeq(init, cut + 1, Len(init))

(* np.argsort(Z[:, 2], kind='mergesort'): stable, ascending *)
InsertAt(sorted, z, cut) ==
    SubSeq(sorted, 1, cut) \o << z >> \o SubSeq(sorted, cut + 1, Len(sorted))

InsertByDist(sorted, z) ==
    InsertAt(sorted, z,
        Cardinality({ i \in DOMAIN sorted : ~FracLess(z.dist, sorted[i].dist) }))

RECURSIVE SortByDist(_)
SortByDist(Z) ==
    IF Len(Z) <= 1 THEN Z
    ELSE InsertByDist(SortByDist(SubSeq(Z, 1, Len(Z) - 1)), Z[Len(Z)])

(* LinkageUnionFind.find *)
RECURSIVE Find(_, _)
Find(parent, x) == IF parent[x] = x THEN x ELSE Find(parent, parent[x])

(* label(Z, n): the merged clusters get the ids n, n+1, ...; the smaller   *)
(* id of a merge is its left child                                         *)
RECURSIVE label(_, _, _, _)
label(Z, n, parent, i) ==
    IF i > Len(Z) THEN << >>
    ELSE LET x_root == Find(parent, Z[i].a)
             y_root == Find(parent, Z[i].b)
             row == IF x_root < y_root
                    THEN [ left |-> x_root, right |-> y_root ]
                    ELSE [ left |-> y_root, right |-> x_root ]
             parent2 == [ parent EXCEPT ![x_root] = n + i - 1,
                                        ![y_root] = n + i - 1 ]
         IN << row >> \o label(Z, n, parent2, i + 1)

(* The condensed distances of X must be finite: a NaN entry of X makes     *)
(* every distance NaN                                                      *)
AllFinite(X) == \A i \in DOMAIN X : \A j \in DOMAIN X[i] : IsFinite(X[i][j])

(* linkage raises ValueError on fewer than two observations (the condensed *)
(* distance matrix is empty) and on non-finite distances                   *)
LinkageRaises(X) == Len(X) < 2 \/ ~AllFinite(X)

linkage(X) ==
    LET n == Len(X)
        Z == nn_chain(pdist(X), [ i \in 0..n - 1 |-> 1 ], n, << >>, << >>, 0)
    IN label(SortByDist(Z), n, [ c \in 0..2 * n - 2 |-> c ], 1)

(* leaves_list(Z): the leaves of the tree, left child first *)
RECURSIVE Leaves(_, _, _)
Leaves(Z, n, node) ==
    IF node < n THEN << node >>
    ELSE Leaves(Z, n, Z[node - n + 1].left) \o Leaves(Z, n, Z[node - n + 1].right)

leaves_list(Z) == Leaves(Z, Len(Z) + 1, 2 * Len(Z))

-----------------------------------------------------------------------------
(* Reordering *)

(* pivot.index[leaves]: the labels at the given positions *)
LabelsAt(labels, leaves) == [ i \in DOMAIN leaves |-> labels[leaves[i] + 1] ]

(* Mutant of loc: the columns keep the order of the pivot *)
locRowsOnly(P, rows, cols) ==
    [ index |-> rows,
      columns |-> cols,
      values |-> [ i \in DOMAIN rows |->
                     [ j \in DOMAIN cols |->
                         P.values[IndexOf(P.index, rows[i])][j] ] ] ]

(* pivot.loc[rows, cols]: rows and columns looked up by label *)
loc(P, rows, cols) ==
    [ index |-> rows,
      columns |-> cols,
      values |-> [ i \in DOMAIN rows |->
                     [ j \in DOMAIN cols |->
                         P.values[IndexOf(P.index, rows[i])]
                                 [IndexOf(P.columns, cols[j])] ] ] ]

-----------------------------------------------------------------------------
(* The heatmap branch after the pivot: what it computes, the library calls *)
(* it makes and the exception that ends it, if any                         *)

NoError == "none"

Raised(pv, sd, rl, sdT, called) ==
    [ pivot |-> pv, scaled_data |-> sd, scaled_cols |-> sdT,
      row_leaves |-> rl, col_leaves |-> << >>,
      clustered_data |-> EmptyFrame, calls |-> called, error |-> "ValueError" ]

Reordered(pv, sd, rl, sdT, cl) ==
    [ pivot |-> pv, scaled_data |-> sd, scaled_cols |-> sdT,
      row_leaves |-> rl, col_leaves |-> cl,
      clustered_data |-> loc(pv, LabelsAt(pv.index, rl), LabelsAt(pv.columns, cl)),
      calls |-> << "pivot_table", "fit_transform", "linkage", "leaves_list",
                   "fit_transform", "linkage", "leaves_list", "loc", "Heatmap" >>,
      error |-> NoError ]

ClusterColumns(pv, sd, rl, sdT) ==
    IF LinkageRaises(sdT)
    THEN Raised(pv, sd, rl, sdT,
                << "pivot_table", "fit_transform", "linkage", "leaves_list",
                   "fit_transform", "linkage" >>)
    ELSE Reordered(pv, sd, rl, sdT, leaves_list(linkage(sdT)))

ClusterRows(pv, sd) ==
    IF LinkageRaises(sd)
    THEN Raised(pv, sd, << >>, << >>,
                << "pivot_table", "fit_transform", "linkage" >>)
    ELSE ClusterColumns(pv, sd, leaves_list(linkage(sd)),
                        fit_transform(Transpose(pv.values, Len(pv.columns))))

Clustermap(pv) ==
    IF Len(pv.values) = 0
    THEN Raised(pv, << >>, << >>, << >>, << "pivot_table", "fit_transform" >>)
    ELSE ClusterRows(pv, fit_transform(pv.values))

(* if plot_type == "Heatmap": ... *)
Heatmap(fdf, kind) == Clustermap(pivot_table(fdf, kind))

(* The branches that do not cluster *)
NoCluster(call) ==
    [ pivot |-> EmptyFrame, scaled_data |-> << >>, scaled_cols |-> << >>,
      row_leaves |-> << >>, col_leaves |-> << >>,
      clustered_data |-> EmptyFrame,
      calls |-> << call >>, error |-> NoError ]

Visualize(fdf, ptype, kind) ==
    IF ptype = "Heatmap" THEN Heatmap(fdf, kind)
    ELSE IF ptype = "Bar Plot" THEN NoCluster("px.bar")
    ELSE IF ptype = "Line Plot" THEN NoCluster("px.line")
    ELSE NoCluster("none")

-----------------------------------------------------------------------------
(* One execution of the script, given what the widgets return *)

(* Lines 100-180: the filter and the visualization *)
Display(d, sv, sd, st, ptype, kind, fdf) ==
    [ selected_vrdls |-> sv, selected_dates |-> sd, selected_targets |-> st,
      plot_type |-> ptype, value_type |-> kind, filtered_df |-> fdf,
      viz |-> Visualize(fdf, ptype, kind) ]

(* Lines 84-96: the options offered and the two select boxes *)
Sidebar(d, sv, sd, st, all, stored_plot, stored_value) ==
    Display(d, sv, sd, st, Selectbox(plot_options(all), stored_plot),
            Selectbox(value_options(all), stored_value), Filter(d, sv, sd, st))

(* Lines 53-79: the three multiselects, resolved *)
Selections(d, sv, sd, st, stored_plot, stored_value) ==
    Sidebar(d, sv, sd, st, all_selected(sv, sd, st, d), stored_plot, stored_value)

Script(d, msv, msd, mst, stored_plot, stored_value) ==
    Selections(d, Resolve(msv, vrdl_values(d)), Resolve(msd, date_values(d)),
               Resolve(mst, target_values(d)), stored_plot, stored_value)

Rerun(msv, msd, mst, stored_plot, stored_value) ==
    \E r \in { Script(df, msv, msd, mst, stored_plot, stored_value) } :
       /\ ms_vrdls' = msv
       /\ ms_dates' = msd
       /\ ms_targets' = mst
       /\ selected_vrdls' = r.selected_vrdls
       /\ selected_dates' = r.selected_dates
       /\ selected_targets' = r.selected_targets
       /\ plot_type' = r.plot_type
       /\ value_type' = r.value_type
       /\ filtered_df' = r.filtered_df
       /\ pivot' = r.viz.pivot
       /\ scaled_data' = r.viz.scaled_data
       /\ scaled_cols' = r.viz.scaled_cols
       /\ row_leaves' = r.viz.row_leaves
       /\ col_leaves' = r.viz.col_leaves
       /\ clustered_data' = r.viz.clustered_data
       /\ calls' = r.viz.calls
       /\ error' = r.viz.error
       /\ UNCHANGED df

Toggle(S, o) == IF o \in S THEN S \ {o} ELSE S \cup {o}

(* The user adds or removes one option of a multiselect *)
SelectVRDL ==
    \E o \in {SelectAll} \cup vrdl_values(df) :
        Rerun(Toggle(ms_vrdls, o), ms_dates, ms_targets, plot_type, value_type)

SelectDate ==
    \E o \in {SelectAll} \cup date_values(df) :
        Rerun(ms_vrdls, Toggle(ms_dates, o), ms_targets, plot_type, value_type)

SelectTarget ==
    \E o \in {SelectAll} \cup target_values(df) :
        Rerun(ms_vrdls, ms_dates, Toggle(ms_targets, o), plot_type, value_type)

(* The user picks one of the options the selectboxes show *)
SelectValue ==
    \E v \in Range(value_options(all_selected(selected_vrdls, selected_dates,
                                              selected_targets, df))) :
        Rerun(ms_vrdls, ms_dates, ms_targets, plot_type, v)

SelectPlotType ==
    \E p \in Range(plot_options(all_selected(selected_vrdls, selected_dates,
                                             selected_targets, df))) :
        Rerun(ms_vrdls, ms_dates, ms_targets, p, value_type)

-----------------------------------------------------------------------------
(* The datasets the dashboard is started on *)

(* Renaming the labels of a dataset renames the labels of everything       *)
(* computed from it, so the labels in use are taken from 1 up: a second    *)
(* label only beside the first, a second timestamp of a day only beside    *)
(* its first, a second day only beside the first                           *)
FromOne(S) == \A l \in S \ {NaN} : l = 1 \/ (l - 1) \in S

RowKey(r) == (((r.VRDL_Name * 10 + r.Date_of_collection) * 10 + r.Target) * 100
              + r.Avg_Cq) * 1000 + r.Copy_Number

Labelled(rows) ==
    /\ FromOne(Column(rows, "VRDL_Name"))
    /\ FromOne(Column(rows, "Target"))
    /\ FromOne({ Strftime(t) : t \in Column(rows, "Date_of_collection") })
    /\ 2 \in Column(rows, "Date_of_collection")
          => 1 \in Column(rows, "Date_of_collection")

(* The order of the rows is immaterial, so one order stands for all: the   *)
(* sequences of n rows of R in ascending order of RowKey                   *)
RECURSIVE Ascending(_, _)
Ascending(R, n) ==
    IF n = 0 THEN { << >> }
    ELSE { Append(rows, r) : << rows, r >> \in
             { x \in Ascending(R, n - 1) \X R :
                 x[1] = << >> \/ RowKey(x[1][Len(x[1])]) <= RowKey(x[2]) } }

Tables(R, max) ==
    UNION { { rows \in Ascending(R, n) : Labelled(rows) } : n \in 0..max }

(* The rows a filter can let through: no key is missing *)
KeyedRow == { r \in CsvRow : /\ r.VRDL_Name # NaN
                             /\ r.Date_of_collection # NaN
                             /\ r.Target # NaN }

(* The matrices a pivot can produce: MaxRows x MaxCols at most, the rows   *)
(* labelled by targets, the columns by sites on one day                    *)
Cells == {0, 1}

Frame(vals) ==
    [ index |-> [ i \in DOMAIN vals |-> 2 * i ],
      columns |-> [ j \in DOMAIN vals[1] |-> << j + 1, 1 >> ],
      values |-> vals ]

Frames(rows, cols) ==
    UNION { { Frame(vals) : vals \in [ 1..k -> [ 1..m -> Cells ] ] }
            : << k, m >> \in (1..rows) \X (1..cols) }

-----------------------------------------------------------------------------
(* Specifications *)

Before(call) ==
    [ pivot |-> EmptyFrame, scaled_data |-> << >>, scaled_cols |-> << >>,
      row_leaves |-> << >>, col_leaves |-> << >>,
      clustered_data |-> EmptyFrame,
      calls |-> call, error |-> NoError ]

Outputs(viz) ==
    /\ pivot = viz.pivot
    /\ scaled_data = viz.scaled_data
    /\ scaled_cols = viz.scaled_cols
    /\ row_leaves = viz.row_leaves
    /\ col_leaves = viz.col_leaves
    /\ clustered_data = viz.clustered_data
    /\ calls = viz.calls
    /\ error = viz.error

NoSidebar ==
    /\ df = << >>
    /\ ms_vrdls = {}
    /\ ms_dates = {}
    /\ ms_targets = {}
    /\ selected_vrdls = {}
    /\ selected_dates = {}
    /\ selected_targets = {}

(* The dashboard, started on a compiled_data.csv of at most MaxRecords     *)
(* rows.  The first execution: every widget at its default                 *)
Init ==
    \E csv \in Tables(CsvRow, MaxRecords) :
      \E r \in { Script(load_data(csv), {SelectAll}, {SelectAll}, {SelectAll},
                         "", "") } :
         /\ df = load_data(csv)
         /\ ms_vrdls = {SelectAll}
         /\ ms_dates = {SelectAll}
         /\ ms_targets = {SelectAll}
         /\ selected_vrdls = r.selected_vrdls
         /\ selected_dates = r.selected_dates
         /\ selected_targets = r.selected_targets
         /\ plot_type = r.plot_type
         /\ value_type = r.value_type
         /\ filtered_df = r.filtered_df
         /\ Outputs(r.viz)

Next == SelectVRDL \/ SelectDate \/ SelectTarget \/ SelectValue \/ SelectPlotType

Spec == Init /\ [][Next]_vars

(* The heatmap branch as a function of the filtered records and the value  *)
(* kind: any filtered records, either value kind of the heatmap            *)
InitPivot ==
    /\ NoSidebar
    /\ plot_type = "Heatmap"
    /\ value_type \in Range(value_options(TRUE))
    /\ filtered_df \in { load_data(csv) : csv \in Tables(KeyedRow, MaxBag) }
    /\ Outputs(Before(<< >>))

RunHeatmap ==
    /\ calls = << >>
    /\ \E viz \in { Heatmap(filtered_df, value_type) } :
          /\ pivot' = viz.pivot
          /\ scaled_data' = viz.scaled_data
          /\ scaled_cols' = viz.scaled_cols
          /\ row_leaves' = viz.row_leaves
          /\ col_leaves' = viz.col_leaves
          /\ clustered_data' = viz.clustered_data
          /\ calls' = viz.calls
          /\ error' = viz.error
    /\ UNCHANGED << df, ms_vrdls, ms_dates, ms_targets, selected_vrdls,
                    selected_dates, selected_targets, plot_type, value_type,
                    filtered_df >>

SpecPivot == InitPivot /\ [][RunHeatmap]_vars

(* The heatmap branch after the pivot as a function of the matrix *)
InitCluster ==
    /\ NoSidebar
    /\ plot_type = "Heatmap"
    /\ value_type = "Avg Cq"
    /\ filtered_df = << >>
    /\ pivot \in Frames(MaxRows, MaxCols)
    /\ scaled_data = << >>
    /\ scaled_cols = << >>
    /\ row_leaves = << >>
    /\ col_leaves = << >>
    /\ clustered_data = EmptyFrame
    /\ calls = << "pivot_table" >>
    /\ error = NoError

RunClustermap ==
    /\ calls = << "pivot_table" >>
    /\ \E viz \in { Clustermap(pivot) } :
          /\ pivot' = viz.pivot
          /\ scaled_data' = viz.scaled_data
          /\ scaled_cols' = viz.scaled_cols
          /\ row_leaves' = viz.row_leaves
          /\ col_leaves' = viz.col_leaves
          /\ clustered_data' = viz.clustered_data
          /\ calls' = viz.calls
          /\ error' = viz.error
    /\ UNCHANGED << df, ms_vrdls, ms_dates, ms_targets, selected_vrdls,
                    selected_dates, selected_targets, plot_type, value_type,
                    filtered_df >>

SpecCluster == InitCluster /\ [][RunClustermap]_vars

-----------------------------------------------------------------------------
(* Properties *)

Max(S) == CHOOSE x \in S : \A y \in S : x >= y

Called(call) == call \in Range(calls)

(* The heatmap branch has run in this state *)
HeatmapRan == plot_type = "Heatmap" /\ Called("fit_transform")

(* A sequence that holds each of 0..k-1 exactly once *)
IsPermutation(s, k) == Len(s) = k /\ Range(s) = 0..k - 1

Orders(k) == { p \in [ 1..k -> 0..k - 1 ] : Range(p) = 0..k - 1 }

Identity(k) == [ i \in 1..k |-> i - 1 ]

(* The records of filtered_df with target t and site+date composite c *)
Contributors(t, c) ==
    { i \in DOMAIN filtered_df :
        /\ filtered_df[i].Target = t
        /\ << filtered_df[i].VRDL_Name,
              Strftime(filtered_df[i].Date_of_collection) >> = c }

(* C1: on the heatmap path, for non-empty filtered records and either      *)
(* value kind, every cell (t, c) of the matrix is the arithmetic mean of   *)
(* the value field over the records with target t and composite c, and is  *)
(* exactly 0 when there is no such record.                                 *)
C1_CellIsMeanOrZero ==
    (HeatmapRan /\ filtered_df # << >>) =>
        \A i \in DOMAIN pivot.index : \A j \in DOMAIN pivot.columns :
            LET g == Contributors(pivot.index[i], pivot.columns[j])
            IN IF g = {} THEN pivot.values[i][j] = 0
               ELSE pivot.values[i][j] * Cardinality(g)
                        = Unit * SumOver(filtered_df, value_type, g)

(* C1 witness: a matrix with a cell averaged over two records of           *)
(* different values and a cell no record contributes to.                   *)
C1_Witness ==
    /\ HeatmapRan
    /\ \E i \in DOMAIN pivot.index : \E j \in DOMAIN pivot.columns :
         LET g == Contributors(pivot.index[i], pivot.columns[j])
         IN /\ Cardinality(g) >= 2
            /\ \E a, b \in g : Value(filtered_df[a], value_type)
                                  # Value(filtered_df[b], value_type)
    /\ \E i \in DOMAIN pivot.index : \E j \in DOMAIN pivot.columns :
         Contributors(pivot.index[i], pivot.columns[j]) = {}

(* C2: a heatmap built from empty filtered records fails with an           *)
(* empty-input error raised before any standardization or linkage runs.    *)
C2_EmptyInputErrorFirst ==
    (plot_type = "Heatmap" /\ filtered_df = << >>) =>
        /\ error = "EmptyInputError"
        /\ ~Called("fit_transform")
        /\ ~Called("linkage")

(* C3: with exactly one target row (or one site+date column) the cluster   *)
(* order of that axis is [0] and linkage is not invoked for it.            *)
C3_SingleItemOrder ==
    /\ (plot_type = "Heatmap" /\ Len(pivot.index) = 1) =>
           row_leaves = << 0 >> /\ ~Called("linkage")
    /\ (plot_type = "Heatmap" /\ Len(pivot.index) >= 2
                              /\ Len(pivot.columns) = 1) =>
           /\ col_leaves = << 0 >>
           /\ Cardinality({ i \in DOMAIN calls : calls[i] = "linkage" }) = 1

(* C4: for every matrix with k >= 1 rows and m >= 1 columns the row order  *)
(* is a permutation of 0..k-1 and the column order one of 0..m-1.          *)
C4_OrdersArePermutations ==
    (HeatmapRan /\ Len(pivot.index) >= 1 /\ Len(pivot.columns) >= 1) =>
        /\ IsPermutation(row_leaves, Len(pivot.index))
        /\ IsPermutation(col_leaves, Len(pivot.columns))

(* C5: for non-empty filtered records the row labels are exactly the       *)
(* distinct targets of the records and the column labels exactly their     *)
(* distinct site + formatted-date composites.                              *)
C5_LabelsAreKeysPresent ==
    (HeatmapRan /\ filtered_df # << >>) =>
        /\ Range(pivot.index) = { filtered_df[i].Target : i \in DOMAIN filtered_df }
        /\ Range(pivot.columns)
             = { << filtered_df[i].VRDL_Name,
                    Strftime(filtered_df[i].Date_of_collection) >> :
                 i \in DOMAIN filtered_df }
        /\ Cardinality(Range(pivot.index)) = Len(pivot.index)
        /\ Cardinality(Range(pivot.columns)) = Len(pivot.columns)

(* C5 witness: two records taken at different times of one day at one      *)
(* site share a column, beside a second column.                            *)
C5_Witness ==
    /\ HeatmapRan
    /\ Len(pivot.columns) >= 2
    /\ Len(pivot.index) >= 2
    /\ \E a, b \in DOMAIN filtered_df :
         /\ filtered_df[a].Date_of_collection # filtered_df[b].Date_of_collection
         /\ filtered_df[a].VRDL_Name = filtered_df[b].VRDL_Name
         /\ Strftime(filtered_df[a].Date_of_collection)
              = Strftime(filtered_df[b].Date_of_collection)

CellsWith(P, v) ==
    { << i, j >> \in (DOMAIN P.index) \X (DOMAIN P.columns) : P.values[i][j] = v }

(* C6: reordering is a pure relabelling: cell (i, j) of the reordered      *)
(* matrix is cell (row_order[i], col_order[j]) of the pivot, for the       *)
(* orders of the clustering and for every other pair of orders; each value *)
(* occurs as often after as before; the pivot is unchanged; the identity   *)
(* orders give the pivot back.                                             *)
C6_ReorderIsRelabelling ==
    (HeatmapRan /\ error = NoError) =>
        LET k == Len(pivot.index)
            m == Len(pivot.columns)
        IN /\ clustered_data.index = LabelsAt(pivot.index, row_leaves)
           /\ clustered_data.columns = LabelsAt(pivot.columns, col_leaves)
           /\ \A i \in 1..k : \A j \in 1..m :
                clustered_data.values[i][j]
                    = pivot.values[row_leaves[i] + 1][col_leaves[j] + 1]
           /\ \A v \in { pivot.values[i][j] : i \in 1..k, j \in 1..m } :
                Cardinality(CellsWith(clustered_data, v))
                    = Cardinality(CellsWith(pivot, v))
           /\ \A ro \in Orders(k) : \A co \in Orders(m) :
                LET R == loc(pivot, LabelsAt(pivot.index, ro),
                             LabelsAt(pivot.columns, co))
                IN \A i \in 1..k : \A j \in 1..m :
                     R.values[i][j] = pivot.values[ro[i] + 1][co[j] + 1]
           /\ loc(pivot, LabelsAt(pivot.index, Identity(k)),
                  LabelsAt(pivot.columns, Identity(m))) = pivot
           /\ pivot = pivot_table(filtered_df, value_type)

(* C6 witness: a heatmap whose clustering moved a column.                  *)
C6_Witness ==
    /\ HeatmapRan
    /\ error = NoError
    /\ col_leaves # Identity(Len(pivot.columns))
    /\ clustered_data.values # pivot.values

(* The feature columns of X whose values are all identical *)
ConstantColumns(X) ==
    { j \in DOMAIN X[1] : \A i \in DOMAIN X : X[i][j] = X[1][j] }

ZeroAndFinite(X, Z) ==
    /\ AllFinite(Z)
    /\ \A j \in ConstantColumns(X) : \A i \in DOMAIN Z : Z[i][j].num = 0

(* C7: in both standardization passes every feature column of identical    *)
(* values is mapped to zeros, and no NaN or infinite value reaches the     *)
(* linkage.                                                                *)
C7_ConstantColumnsToZero ==
    /\ scaled_data # << >> => ZeroAndFinite(pivot.values, scaled_data)
    /\ scaled_cols # << >> =>
           ZeroAndFinite(Transpose(pivot.values, Len(pivot.columns)), scaled_cols)

(* C7 witness: both passes ran on a matrix with a constant column and a    *)
(* constant row, beside columns and rows that vary.                        *)
C7_Witness ==
    /\ scaled_data # << >>
    /\ scaled_cols # << >>
    /\ ConstantColumns(pivot.values) # {}
    /\ ConstantColumns(pivot.values) # DOMAIN pivot.columns
    /\ ConstantColumns(Transpose(pivot.values, Len(pivot.columns))) # {}
    /\ ConstantColumns(Transpose(pivot.values, Len(pivot.columns)))
          # DOMAIN pivot.index

(* The rows of the pivot identical to row i, numbered from 0 *)
SameRows(i) == { r \in 0..Len(pivot.values) - 1 : pivot.values[r + 1] = pivot.values[i] }

Positions(order, S) == { p \in DOMAIN order : order[p] \in S }

(* C9: three rows identical in every column, in a matrix with at least one *)
(* other row, occupy three consecutive positions of the row order.         *)
C9_IdenticalRowsAdjacent ==
    (HeatmapRan /\ Len(pivot.index) >= 4) =>
        \A i \in DOMAIN pivot.values :
            Cardinality(SameRows(i)) = 3 =>
                LET P == Positions(row_leaves, SameRows(i))
                IN Cardinality(P) = 3 /\ Max(P) - Min(P) = 2

(* C9 witness: three identical rows that are not consecutive in the pivot  *)
(* and that the row order brings together.                                 *)
C9_Witness ==
    /\ HeatmapRan
    /\ \E i \in DOMAIN pivot.values :
         /\ Cardinality(SameRows(i)) = 3
         /\ Max(SameRows(i)) - Min(SameRows(i)) > 2
         /\ Cardinality(Positions(row_leaves, SameRows(i))) = 3

RowsPassing(sv, sd, st) ==
    Take(df, Sorted({ i \in DOMAIN df :
                        /\ df[i].VRDL_Name \in sv
                        /\ Strftime(df[i].Date_of_collection) \in sd
                        /\ df[i].Target \in st }))

Resolved(ms, selected, values) ==
    /\ SelectAll \notin selected
    /\ selected \subseteq values
    /\ ms = {SelectAll} => selected = values
    /\ (SelectAll \in ms /\ ms # {SelectAll}) => selected = ms \ {SelectAll}
    /\ SelectAll \notin ms => selected = ms

(* C8: for each selector and every selection, the resolved selection used  *)
(* for filtering holds no "Select All" and lies within the domain: "Select *)
(* All" alone is the domain, "Select All" with others is the others, a     *)
(* selection without it is used as is.                                     *)
C8_SelectAllResolved ==
    /\ Resolved(ms_vrdls, selected_vrdls, vrdl_values(df))
    /\ Resolved(ms_dates, selected_dates, date_values(df))
    /\ Resolved(ms_targets, selected_targets, target_values(df))
    /\ filtered_df = RowsPassing(selected_vrdls, selected_dates, selected_targets)

(* C8 witness: "Select All" chosen together with one of two sites, and the *)
(* filter letting through some rows and not others.                        *)
C8_Witness ==
    /\ SelectAll \in ms_vrdls
    /\ Cardinality(ms_vrdls) = 2
    /\ Cardinality(vrdl_values(df)) = 2
    /\ SelectAll \notin ms_dates
    /\ ms_targets = {SelectAll}
    /\ filtered_df # << >>
    /\ filtered_df # df

AllResolved ==
    /\ selected_vrdls = vrdl_values(df)
    /\ selected_dates = date_values(df)
    /\ selected_targets = target_values(df)

(* C10: whatever the filter changes so far, the plot type is "Heatmap"     *)
(* exactly when the three resolved selections are the full domains and     *)
(* "Bar Plot" otherwise; the "Line Plot" branch never runs; the clustering *)
(* runs only on the rows no selection filters out.                         *)
C10_PlotTypeFromSelections ==
    /\ plot_type = (IF AllResolved THEN "Heatmap" ELSE "Bar Plot")
    /\ ~Called("px.line")
    /\ plot_type = "Heatmap" <=> Called("pivot_table")
    /\ plot_type = "Bar Plot" <=> Called("px.bar")
    /\ Called("pivot_table") =>
          filtered_df = RowsPassing(vrdl_values(df), date_values(df),
                                    target_values(df))

(* C10 witness: back on the heatmap after a bar plot, every option chosen  *)
(* one by one and no "Select All".                                         *)
C10_Witness ==
    /\ plot_type = "Heatmap"
    /\ error = NoError
    /\ SelectAll \notin ms_vrdls \cup ms_dates \cup ms_targets
    /\ Cardinality(ms_targets) = 2

====
